---- MODULE Spec2Model ----
(***************************************************************************)
(* State-machine model of the entropy sources of fingerprintjs:            *)
(*   - getWebRTCIPs            (src/src/sources/tls_fingerprint.ts)        *)
(*   - getTLSFingerprint / configureTLSFingerprint (same file)             *)
(*   - getScreenMediaQueries   (src/src/sources/screen_media_queries.ts)   *)
(*   - getCanvasFingerprint    (src/src/sources/canvas.ts)                 *)
(*   - the audio producer      (src/unnamed/part_000, its tests)           *)
(* Each source has its own specification; the variables of the other       *)
(* sources stay at their initial values.                                   *)
(***************************************************************************)
EXTENDS Integers, Sequences, FiniteSets, TLC

VARIABLES
  \* ---- getWebRTCIPs: host side
  hostCtors,          \* peer-connection constructors the window object offers
  pc,                 \* the peer connection: "none", "open" or "closed"
  iceGatheringState,  \* pc.iceGatheringState
  offer,              \* the createOffer().then(setLocalDescription) chain
  \* ---- getWebRTCIPs: closure state
  rtcCalled,          \* the executor of the returned promise has run
  result,             \* the WebRTCIPs record (shared by reference with the caller)
  seenIPs,            \* the Set<string> of extracted addresses
  resolved,           \* the idempotence guard of finish
  timeout,            \* the 1000 ms timer: "none", "armed", "cleared", "fired"
  promise,            \* state of the returned promise
  \* ---- getWebRTCIPs: observers
  resolveCalls,       \* number of resolve(result) calls made
  completions,        \* number of completion paths that reached finish
  delivered,          \* contents of the record at the moment resolve was called
  setup,              \* how the synchronous setup of the call went
  candidates,         \* number of non-null candidate events handled
  \* ---- TLS fingerprint: module state
  configuredOptions,  \* the process-wide options record
  \* ---- TLS fingerprint: one getTLSFingerprint call
  tlsPc,              \* "idle", "fetching" (await fetch), "reading" (await json), "done"
  endpoint,           \* the endpoint the call destructured from the options
  tlsTimeout,         \* the abort timer: "none", "armed", "cleared", "fired"
  delay,              \* the delay the abort timer was armed with, in ms
  aborted,            \* controller.abort() has been called
  tlsPromise,         \* state of the promise the call returned
  tlsResult,          \* the TLSFingerprint record it resolved with
  \* ---- TLS fingerprint: observers
  lastOptions,        \* argument of the most recent configureTLSFingerprint call
  configures,         \* number of configureTLSFingerprint calls
  tlsCalls,           \* number of getTLSFingerprint calls
  fetchIssued,        \* the current call has called fetch
  deadlinePassed,     \* the call's deadline (timeout || 3000 ms) has elapsed
  \* ---- getScreenMediaQueries
  mqHost,             \* the host: how its matchMedia answers, its true viewport
  mqPc,               \* "idle", "lower" (first loop), "upper" (second loop), "done"
  dimension,          \* argument of the running detectDimensionRange call
  low,                \* its local low
  high,               \* its local high
  minValue,           \* its local minValue
  viewportWidth,      \* field of the returned record
  viewportHeight,     \* field of the returned record
  \* ---- getScreenMediaQueries: the detectors that follow the two ranges
  prHost,             \* the host: its resolution, colour depth, media features, window
  prPc,               \* "idle", "ratio", "color", "keywords", "done"
  prIndex,            \* loop variable i of detectPixelRatio / detectColorBits
  pixelRatio,         \* field of the returned record, in hundredths
  colorBits,          \* field of the returned record
  keywords,           \* the ten keyword fields of the returned record
  windowReads,        \* properties of window read by the call (matchMedia apart)
  \* ---- getCanvasFingerprint / getUnstableCanvasFingerprint
  cvHost,             \* the host: browser, canvas support, noise, rendered scenes
  cvPc,               \* "idle", "images", "geometry", "text", "done"
  winding,            \* local of the running call
  geometry,           \* local of the running call
  text,               \* local of the running call
  cvOutcome,          \* how the last call ended: "none", "returned", "threw"
  cvReturned,         \* the record the last call returned
  cvFirst,            \* the first record getCanvasFingerprint returned
  cvEntry,            \* the entry point of the last call
  \* ---- getDenoisedCanvasData
  dnPc,               \* "idle", "loop", "done", "threw"
  dnSource,           \* the source canvas after renderFn
  dnX,                \* loop variable x
  dnY,                \* loop variable y
  scaledImageData,    \* what getImageData returned for the scaled canvas
  denoisedData,       \* the Uint8ClampedArray being filled
  dnReadIdx,          \* indices of scaledImageData.data read so far
  dnResult,           \* the string the call returned
  canvases,           \* canvas elements created by the running call
  fellBack,           \* a call returned through the fallback canvas.toDataURL()
  \* ---- the audio source
  auHost,             \* the host: suspends the audio context, perturbs renderings
  auReturned          \* what each call of getAudioFingerprint returned, in order

rtcVars == <<hostCtors, pc, iceGatheringState, offer, rtcCalled, result, seenIPs,
             resolved, timeout, promise, resolveCalls, completions, delivered,
             setup, candidates>>

tlsVars == <<configuredOptions, tlsPc, endpoint, tlsTimeout, delay, aborted, tlsPromise,
             tlsResult, lastOptions, configures, tlsCalls, fetchIssued, deadlinePassed>>

mqVars == <<mqHost, mqPc, dimension, low, high, minValue, viewportWidth, viewportHeight>>

prVars == <<prHost, prPc, prIndex, pixelRatio, colorBits, keywords, windowReads>>

cvVars == <<cvHost, cvPc, winding, geometry, text, cvOutcome, cvReturned, cvFirst,
            cvEntry>>

dnVars == <<dnPc, dnSource, dnX, dnY, scaledImageData, denoisedData, dnReadIdx, dnResult,
            canvases, fellBack>>

auVars == <<auHost, auReturned>>

vars == <<rtcVars, tlsVars, mqVars, prVars, cvVars, dnVars, auVars>>

\* What the steps of one source leave alone: the variables of the other sources
exceptRtc == <<tlsVars, mqVars, prVars, cvVars, dnVars, auVars>>
exceptTls == <<rtcVars, mqVars, prVars, cvVars, dnVars, auVars>>
exceptMq == <<rtcVars, tlsVars, prVars, cvVars, dnVars, auVars>>
exceptPr == <<rtcVars, tlsVars, mqVars, cvVars, dnVars, auVars>>
exceptCv == <<rtcVars, tlsVars, mqVars, prVars, auVars>>
exceptAu == <<rtcVars, tlsVars, mqVars, prVars, cvVars, dnVars>>

(***************************************************************************)
(* Bounds of the model.                                                    *)
(***************************************************************************)
MaxCandidates == 2
MaxConfigures == 2
MaxTlsCalls == 2

(***************************************************************************)
(* Strings.  A JavaScript string is a TLA+ string; Char(s, i) is s[i-1].   *)
(***************************************************************************)
Char(s, i) == IF i >= 1 /\ i <= Len(s) THEN SubSeq(s, i, i) ELSE ""

Digits == {"0", "1", "2", "3", "4", "5", "6", "7", "8", "9"}
HexLower == {"a", "b", "c", "d", "e", "f"}
HexUpper == {"A", "B", "C", "D", "E", "F"}

\* [0-9]
IsDigit(c) == c \in Digits
\* [a-f0-9] under the i flag
IsHex(c) == c \in Digits \cup HexLower \cup HexUpper

\* Length of the run of digits of s that starts at position i.
RECURSIVE DigitRun(_, _)
DigitRun(s, i) == IF IsDigit(Char(s, i)) THEN 1 + DigitRun(s, i + 1) ELSE 0

\* Length of the run of hex digits of s that starts at position i.
RECURSIVE HexRun(_, _)
HexRun(s, i) == IF IsHex(Char(s, i)) THEN 1 + HexRun(s, i + 1) ELSE 0

Min(a, b) == IF a <= b THEN a ELSE b

\* String.prototype.startsWith / endsWith / includes (one-character needle)
StartsWith(s, p) == Len(s) >= Len(p) /\ SubSeq(s, 1, Len(p)) = p
EndsWith(s, p) == Len(s) >= Len(p) /\ SubSeq(s, Len(s) - Len(p) + 1, Len(s)) = p
Includes(s, c) == \E i \in 1..Len(s) : Char(s, i) = c

LowerChar(c) ==
  CASE c = "A" -> "a" [] c = "B" -> "b" [] c = "C" -> "c"
    [] c = "D" -> "d" [] c = "E" -> "e" [] c = "F" -> "f"
    [] OTHER -> c

\* String.prototype.toLowerCase on the alphabet of the matched addresses
RECURSIVE ToLowerCase(_)
ToLowerCase(s) ==
  IF Len(s) = 0 THEN "" ELSE LowerChar(Char(s, 1)) \o ToLowerCase(SubSeq(s, 2, Len(s)))

DigitVal(c) ==
  CASE c = "0" -> 0 [] c = "1" -> 1 [] c = "2" -> 2 [] c = "3" -> 3 [] c = "4" -> 4
    [] c = "5" -> 5 [] c = "6" -> 6 [] c = "7" -> 7 [] c = "8" -> 8 [] c = "9" -> 9

NaN == -1

\* Number(s) for a string of decimal digits; Number("") is 0, anything else NaN.
RECURSIVE DecimalValue(_, _)
DecimalValue(s, acc) ==
  IF Len(s) = 0 THEN acc
  ELSE DecimalValue(SubSeq(s, 2, Len(s)), acc * 10 + DigitVal(Char(s, 1)))

Number(s) ==
  IF \A i \in 1..Len(s) : IsDigit(Char(s, i)) THEN DecimalValue(s, 0) ELSE NaN

\* ip.split('.') : the pieces of s between the separators
RECURSIVE SplitFrom(_, _, _)
SplitFrom(s, i, piece) ==
  IF i > Len(s) THEN <<piece>>
  ELSE IF Char(s, i) = "." THEN <<piece>> \o SplitFrom(s, i + 1, "")
  ELSE SplitFrom(s, i + 1, piece \o Char(s, i))

Split(s) == SplitFrom(s, 1, "")

(***************************************************************************)
(* The address regular expression of the candidate handler,                *)
(*   /([0-9]{1,3}(\.[0-9]{1,3}){3}|[a-f0-9]{1,4}(:[a-f0-9]{1,4}){7})/i     *)
(* Each matcher returns the position after the match, or 0 when the        *)
(* alternative does not match at position p.  A group that is followed by  *)
(* a separator must take its whole run (backtracking to a shorter prefix   *)
(* leaves a digit where the separator is needed); the last group is        *)
(* greedy up to its maximum.                                               *)
(***************************************************************************)
NoMatch == ""

RECURSIVE MatchIPv4(_, _, _)
MatchIPv4(s, p, groups) ==
  LET n == DigitRun(s, p) IN
  IF n = 0 THEN 0
  ELSE IF groups = 1 THEN p + Min(n, 3)
  ELSE IF n <= 3 /\ Char(s, p + n) = "." THEN MatchIPv4(s, p + n + 1, groups - 1)
  ELSE 0

RECURSIVE MatchIPv6(_, _, _)
MatchIPv6(s, p, groups) ==
  LET n == HexRun(s, p) IN
  IF n = 0 THEN 0
  ELSE IF groups = 1 THEN p + Min(n, 4)
  ELSE IF n <= 4 /\ Char(s, p + n) = ":" THEN MatchIPv6(s, p + n + 1, groups - 1)
  ELSE 0

\* candidate.match(re): the leftmost match, first alternative first; ipMatch[1]
MatchFrom(s) ==
  LET starts == {i \in 1..Len(s) : MatchIPv4(s, i, 4) # 0 \/ MatchIPv6(s, i, 8) # 0} IN
  IF starts = {} THEN NoMatch
  ELSE LET i == CHOOSE k \in starts : \A j \in starts : k <= j
           e4 == MatchIPv4(s, i, 4)
           e6 == MatchIPv6(s, i, 8)
       IN IF e4 # 0 THEN SubSeq(s, i, e4 - 1) ELSE SubSeq(s, i, e6 - 1)

ipMatch(candidate) == MatchFrom(candidate)

isPrivateIPv4(ip) ==
  LET parts == [i \in 1..Len(Split(ip)) |-> Number(Split(ip)[i])] IN
  IF Len(parts) # 4 THEN FALSE
  ELSE IF parts[1] = 10 THEN TRUE
  ELSE IF parts[1] = 172 /\ parts[2] >= 16 /\ parts[2] <= 31 THEN TRUE
  ELSE IF parts[1] = 192 /\ parts[2] = 168 THEN TRUE
  ELSE IF parts[1] = 169 /\ parts[2] = 254 THEN TRUE
  ELSE FALSE

isLinkLocalIPv6(ip) == StartsWith(ToLowerCase(ip), "fe80:")

(***************************************************************************)
(* getWebRTCIPs                                                            *)
(***************************************************************************)
CtorNames == {"RTCPeerConnection", "webkitRTCPeerConnection", "mozRTCPeerConnection"}

\* Candidate lines the host's ICE agent can deliver (event.candidate.candidate).
CandidatePool ==
  { "candidate:842163049 1 udp 1677729535 192.168.1.5 54321 typ host",
    "candidate:842163050 1 tcp 1518280447 192.168.1.5 9 typ host tcptype active",
    "candidate:1 1 udp 2113937151 10.0.0.7 50000 typ host",
    "candidate:2 1 udp 2113937151 172.31.255.1 50001 typ host",
    "candidate:3 1 udp 2113937151 172.32.0.1 50002 typ host",
    "candidate:4 1 udp 2113937151 169.254.10.1 50003 typ host",
    "candidate:5 1 udp 1677729535 203.0.113.5 50004 typ srflx raddr 10.0.0.7 rport 50000",
    "candidate:6 1 udp 2113937151 2001:db8:0:0:0:0:0:1 50005 typ host",
    "candidate:7 1 udp 2113937151 fe80:0:0:0:0:0:0:1 50006 typ host",
    "candidate:8 1 udp 2113937151 FE80:0:0:0:0:0:0:2 50007 typ host",
    "candidate:9 1 udp 2113937151 2001:db8::1 50008 typ host",
    "candidate:10 1 udp 2113937151 1f4712db-ea17-4bcf-a596-105139dfd8bf.local 50009 typ host",
    "" }

EmptyResult == [localIPv4 |-> <<>>, localIPv6 |-> <<>>, supported |-> FALSE]

\* Lookup that forgets the mozRTCPeerConnection variant
PeerConnection_NoMoz(w) ==
  IF "RTCPeerConnection" \in w THEN "RTCPeerConnection"
  ELSE IF "webkitRTCPeerConnection" \in w THEN "webkitRTCPeerConnection"
  ELSE "undefined"

\* windowWithRTC.RTCPeerConnection || .webkitRTCPeerConnection || .mozRTCPeerConnection
PeerConnection(w) ==
  IF "RTCPeerConnection" \in w THEN "RTCPeerConnection"
  ELSE IF "webkitRTCPeerConnection" \in w THEN "webkitRTCPeerConnection"
  ELSE IF "mozRTCPeerConnection" \in w THEN "mozRTCPeerConnection"
  ELSE "undefined"

\* clearTimeout(timeout): cancels the timer when it has not fired yet
clearTimeout(t) == IF t = "armed" THEN "cleared" ELSE t

\* resolve(value) of the promise: a settled promise stays as it is
resolve(pr) == IF pr = "pending" THEN "resolved" ELSE pr

\* finish without its guard
finish_Unguarded(res) ==
  /\ resolved' = TRUE
  /\ promise' = resolve(promise)
  /\ resolveCalls' = resolveCalls + 1
  /\ delivered' = IF promise = "pending" THEN res ELSE delivered
  /\ completions' = completions + 1

\* finish(): res is the record as it stands when finish runs
finish(res) ==
  /\ completions' = completions + 1
  /\ IF ~resolved
       THEN /\ resolved' = TRUE
            /\ promise' = resolve(promise)
            /\ resolveCalls' = resolveCalls + 1
            /\ delivered' = res
       ELSE UNCHANGED <<resolved, promise, resolveCalls, delivered>>

NotDelivered == [localIPv4 |-> <<>>, localIPv6 |-> <<>>, supported |-> "none"]

\* State before the call, on a host whose window is one of windows
RtcInitOn(windows) ==
  /\ hostCtors \in windows
  /\ pc = "none"
  /\ iceGatheringState = "new"
  /\ offer = "none"
  /\ rtcCalled = FALSE
  /\ result = EmptyResult
  /\ seenIPs = {}
  /\ resolved = FALSE
  /\ timeout = "none"
  /\ promise = "pending"
  /\ resolveCalls = 0
  /\ completions = 0
  /\ delivered = NotDelivered
  /\ setup = "none"
  /\ candidates = 0

SetupOutcomes == {"ok", "ctorThrows", "dataChannelThrows", "createOfferThrows"}

\* The executor of the promise: the whole synchronous body of getWebRTCIPs.
GetWebRTCIPs(outcome) ==
  /\ UNCHANGED exceptRtc
  /\ ~rtcCalled
  /\ rtcCalled' = TRUE
  /\ UNCHANGED <<hostCtors, iceGatheringState, seenIPs, candidates>>
  /\ IF PeerConnection(hostCtors) = "undefined"
       THEN /\ promise' = resolve(promise)
            /\ resolveCalls' = resolveCalls + 1
            /\ delivered' = result
            /\ completions' = completions + 1
            /\ UNCHANGED <<pc, offer, result, resolved, timeout, setup>>
       ELSE /\ result' = [result EXCEPT !.supported = TRUE]
            /\ setup' = outcome
            /\ pc' = IF outcome = "ctorThrows" THEN "none" ELSE "open"
            /\ offer' = IF outcome = "ok" THEN "pending" ELSE "none"
            /\ IF outcome = "ok"
                 THEN /\ timeout' = "armed"
                      /\ UNCHANGED <<resolved, promise, resolveCalls, delivered,
                                     completions>>
                 ELSE /\ timeout' = clearTimeout("armed")
                      /\ finish(result')

\* pc.close() as the host performs it: it returns, or it throws
CloseOutcomes == {"ok", "throws"}

\* The completion sequence shared by the two ICE handlers:
\* clearTimeout(timeout); pc.close(); finish()
CloseAndFinish ==
  /\ timeout' = clearTimeout(timeout)
  /\ \E close \in CloseOutcomes :
       IF close = "ok"
         THEN /\ pc' = "closed"
              /\ finish(result)
         ELSE /\ pc' \in {"open", "closed"}
              /\ UNCHANGED <<resolved, promise, resolveCalls, delivered, completions>>

\* pc.onicecandidate with event.candidate === null
IceEndOfCandidates ==
  /\ UNCHANGED exceptRtc
  /\ rtcCalled /\ pc = "open"
  /\ CloseAndFinish
  /\ UNCHANGED <<hostCtors, iceGatheringState, offer, rtcCalled, result, seenIPs,
                 setup, candidates>>

\* The candidate handler's update of the record, without the seenIPs test
AddCandidate_NoDedup(res, seen, ip) ==
  IF ip = NoMatch \/ EndsWith(ip, ".local") THEN res
  ELSE IF Includes(ip, ":")
    THEN IF ~isLinkLocalIPv6(ip)
           THEN [res EXCEPT !.localIPv6 = Append(@, ip)] ELSE res
    ELSE IF isPrivateIPv4(ip)
           THEN [res EXCEPT !.localIPv4 = Append(@, ip)] ELSE res

\* The candidate handler's update of the record; ip is ipMatch[1] or NoMatch
AddCandidate(res, seen, ip) ==
  IF ip = NoMatch THEN res
  ELSE IF ip \in seen THEN res
  ELSE IF EndsWith(ip, ".local") THEN res
  ELSE IF Includes(ip, ":")
    THEN IF ~isLinkLocalIPv6(ip)
           THEN [res EXCEPT !.localIPv6 = Append(@, ip)] ELSE res
    ELSE IF isPrivateIPv4(ip)
           THEN [res EXCEPT !.localIPv4 = Append(@, ip)] ELSE res

\* The candidate handler's update of seenIPs
AddSeen(seen, ip) == IF ip = NoMatch THEN seen ELSE seen \cup {ip}

\* candidate.match(re) for every line of the pool, computed once
ipMatches == [c \in CandidatePool |-> ipMatch(c)]

\* pc.onicecandidate with a candidate
IceCandidate(candidate) ==
  /\ UNCHANGED exceptRtc
  /\ rtcCalled /\ pc = "open"
  /\ candidates < MaxCandidates
  /\ candidates' = candidates + 1
  /\ LET ip == ipMatches[candidate] IN
       /\ result' = AddCandidate(result, seenIPs, ip)
       /\ seenIPs' = AddSeen(seenIPs, ip)
  /\ UNCHANGED <<hostCtors, pc, iceGatheringState, offer, rtcCalled, resolved, timeout,
                 promise, resolveCalls, completions, delivered, setup>>

NextGatheringState(g) == IF g = "new" THEN "gathering" ELSE "complete"

\* pc.onicegatheringstatechange: the host has moved iceGatheringState
IceGatheringStateChange ==
  /\ UNCHANGED exceptRtc
  /\ rtcCalled /\ pc = "open"
  /\ iceGatheringState # "complete"
  /\ iceGatheringState' = NextGatheringState(iceGatheringState)
  /\ IF iceGatheringState' = "complete"
       THEN CloseAndFinish
       ELSE UNCHANGED <<pc, timeout, resolved, promise, resolveCalls, delivered,
                        completions>>
  /\ UNCHANGED <<hostCtors, offer, rtcCalled, result, seenIPs, setup, candidates>>

\* createOffer() or setLocalDescription(offer) rejects: the .catch callback
OfferRejected ==
  /\ UNCHANGED exceptRtc
  /\ offer = "pending"
  /\ offer' = "rejected"
  /\ timeout' = clearTimeout(timeout)
  /\ finish(result)
  /\ UNCHANGED <<hostCtors, pc, iceGatheringState, rtcCalled, result, seenIPs, setup,
                 candidates>>

\* setLocalDescription(offer) fulfils: nothing is registered for it
OfferFulfilled ==
  /\ UNCHANGED exceptRtc
  /\ offer = "pending"
  /\ offer' = "fulfilled"
  /\ UNCHANGED <<hostCtors, pc, iceGatheringState, rtcCalled, result, seenIPs, resolved,
                 timeout, promise, resolveCalls, completions, delivered, setup,
                 candidates>>

\* The 1000 ms timer fires: setTimeout(finish, 1000)
TimerFires ==
  /\ UNCHANGED exceptRtc
  /\ timeout = "armed"
  /\ timeout' = "fired"
  /\ finish(result)
  /\ UNCHANGED <<hostCtors, pc, iceGatheringState, offer, rtcCalled, result, seenIPs,
                 setup, candidates>>

RtcNext ==
  \/ \E outcome \in SetupOutcomes : GetWebRTCIPs(outcome)
  \/ IceEndOfCandidates
  \/ \E candidate \in CandidatePool : IceCandidate(candidate)
  \/ IceGatheringStateChange
  \/ OfferRejected
  \/ OfferFulfilled
  \/ TimerFires

(***************************************************************************)
(* Properties of getWebRTCIPs                                              *)
(***************************************************************************)

\* C1: the promise of one getWebRTCIPs call is resolved at most once and never
\* rejected, however the completion paths (end of candidates, gathering
\* complete, offer rejection, setup throw, timer) interleave; a completion
\* that comes after the first one leaves the promise and its value untouched.
C1_ResolvedAtMostOnce ==
  /\ [](/\ resolveCalls <= 1
        /\ promise # "rejected"
        /\ (promise = "resolved" <=> resolveCalls = 1))
  /\ [][promise = "resolved" =>
          /\ promise' = "resolved"
          /\ resolveCalls' = resolveCalls
          /\ delivered' = delivered]_vars

\* Two completion paths have run and the promise was resolved by one of them.
C1_Witness == completions >= 2 /\ resolveCalls = 1 /\ promise = "resolved"

\* C2: while the promise of a call is pending the 1000 ms timer is still
\* armed, so the call resolves no later than the timer fires; the timer is
\* never cancelled with the promise left pending.
C2_PendingOnlyWhileArmed ==
  (rtcCalled /\ promise = "pending") => timeout = "armed"

\* C3: whenever the promise is resolved after a peer connection was
\* constructed, that peer connection has been closed.
C3_ResolvedImpliesClosed ==
  (promise = "resolved" /\ pc # "none") => pc = "closed"

\* C17: once the promise has resolved, the record handed to the caller is
\* never modified again: it keeps the contents it had when resolve was
\* called, whatever candidate events the peer connection still delivers.
C17_RecordFrozen ==
  promise = "resolved" => result = delivered

NoDuplicates(seq) ==
  \A i, j \in 1..Len(seq) : i # j => seq[i] # seq[j]

\* The dotted quad names an address of 10/8, 172.16/12, 192.168/16 or 169.254/16.
InPrivateRanges(ip) ==
  LET o == Split(ip) IN
  /\ Len(o) = 4
  /\ \A i \in 1..4 : Number(o[i]) \in 0..255
  /\ \/ Number(o[1]) = 10
     \/ Number(o[1]) = 172 /\ Number(o[2]) \in 16..31
     \/ Number(o[1]) = 192 /\ Number(o[2]) = 168
     \/ Number(o[1]) = 169 /\ Number(o[2]) = 254

BeginsWithFe80(ip) ==
  /\ Char(ip, 1) \in {"f", "F"}
  /\ Char(ip, 2) \in {"e", "E"}
  /\ Char(ip, 3) = "8"
  /\ Char(ip, 4) = "0"
  /\ Char(ip, 5) = ":"

C5_UnusableHost ==
  /\ (promise = "resolved" /\ candidates = 0) =>
        /\ delivered.localIPv4 = <<>>
        /\ delivered.localIPv6 = <<>>
        /\ delivered.supported = (hostCtors # {})
  /\ (rtcCalled /\ hostCtors = {}) =>
        /\ promise = "resolved"
        /\ timeout = "none"
        /\ pc = "none"
  /\ setup \in {"ctorThrows", "dataChannelThrows", "createOfferThrows"} =>
        /\ promise = "resolved"
        /\ delivered = [localIPv4 |-> <<>>, localIPv6 |-> <<>>, supported |-> TRUE]

\* Setup threw after the connection was constructed and the call resolved.
C5_Witness ==
  /\ setup = "dataChannelThrows"
  /\ promise = "resolved"
  /\ delivered.supported = TRUE

(***************************************************************************)
(* JavaScript values of the TLS source: undefined, null, strings, numbers. *)
(***************************************************************************)
Undefined == [type |-> "undefined"]
Null == [type |-> "null"]
Str(x) == [type |-> "string", v |-> x]
Num(n) == [type |-> "number", v |-> n]

\* ToBoolean
Truthy(x) ==
  CASE x.type = "undefined" -> FALSE
    [] x.type = "null" -> FALSE
    [] x.type = "string" -> x.v # ""
    [] x.type = "number" -> x.v # 0
    [] OTHER -> TRUE

\* a || b
Or(a, b) == IF Truthy(a) THEN a ELSE b

\* obj.key for an object given as a function from its own keys
Get(obj, key) == IF key \in DOMAIN obj THEN obj[key] ELSE Undefined

\* { ...a, ...b }
Spread(a, b) ==
  [k \in DOMAIN a \cup DOMAIN b |-> IF k \in DOMAIN b THEN b[k] ELSE a[k]]

(***************************************************************************)
(* configureTLSFingerprint / getTLSFingerprint                             *)
(***************************************************************************)
DefaultTimeout == 3000

defaultOptions == [endpoint |-> Undefined, timeout |-> Num(DefaultTimeout)]

EndpointValues == {Undefined, Str(""), Str("https://tls.example/fp")}
TimeoutValues == {Undefined, Num(0), Num(50)}

\* The TLSFingerprintOptions objects a caller passes: each field present or absent.
OptionsObjects ==
  {[k \in {} |-> Undefined]}
    \cup {[endpoint |-> e] : e \in EndpointValues}
    \cup {[timeout |-> t] : t \in TimeoutValues}
    \cup {[endpoint |-> e, timeout |-> t] : e \in EndpointValues, t \in TimeoutValues}

\* Configuration that keeps the fields of earlier calls
Configured_Accumulating(current, options) == Spread(current, options)

\* configuredOptions = { ...defaultOptions, ...options }
Configured(current, options) == Spread(defaultOptions, options)

configureTLSFingerprint(options) ==
  /\ UNCHANGED exceptTls
  /\ configures < MaxConfigures
  /\ configures' = configures + 1
  /\ configuredOptions' = Configured(configuredOptions, options)
  /\ lastOptions' = options
  /\ UNCHANGED <<tlsPc, endpoint, tlsTimeout, delay, aborted, tlsPromise, tlsResult,
                 tlsCalls, fetchIssued, deadlinePassed>>

\* timeout || 3000
Deadline(t) == Or(t, Num(DefaultTimeout)).v

NoResult == [ja3 |-> Undefined, ja3Full |-> Undefined, ja4 |-> Undefined,
             success |-> FALSE, error |-> Undefined]

\* The record returned when no endpoint is configured
NoEndpointResult ==
  [ja3 |-> Undefined, ja3Full |-> Undefined, ja4 |-> Undefined,
   success |-> FALSE, error |-> Str("No TLS fingerprint endpoint configured")]

\* The record returned for a response that is not ok
HttpErrorResult(status) ==
  [ja3 |-> Undefined, ja3Full |-> Undefined, ja4 |-> Undefined,
   success |-> FALSE, error |-> Str(status)]

\* The record of the catch block with error.message taken from any thrown value
CatchResult_NoInstanceOf(thrown) ==
  [ja3 |-> Undefined, ja3Full |-> Undefined, ja4 |-> Undefined,
   success |-> FALSE, error |-> thrown.message]

\* The record of the catch block
CatchResult(thrown) ==
  [ja3 |-> Undefined, ja3Full |-> Undefined, ja4 |-> Undefined,
   success |-> FALSE,
   error |-> IF thrown.isError THEN thrown.message ELSE Str("Unknown error")]

\* The record built from the parsed body (data is an object or a primitive)
SuccessResult(data) ==
  [ja3 |-> Or(Or(Or(Get(data, "ja3_hash"), Get(data, "ja3Hash")), Get(data, "ja3")),
              Undefined),
   ja3Full |-> Or(Or(Or(Get(data, "ja3_full"), Get(data, "ja3Full")),
                     Get(data, "ja3_string")), Undefined),
   ja4 |-> Or(Get(data, "ja4"), Undefined),
   success |-> TRUE,
   error |-> Undefined]

\* Values a rejected fetch or a failing response.json() throws
NetworkError == [isError |-> TRUE, message |-> Str("Failed to fetch")]
AbortError == [isError |-> TRUE, message |-> Str("The user aborted a request.")]
SyntaxError == [isError |-> TRUE, message |-> Str("Unexpected token < in JSON")]
TypeErrorOnNull == [isError |-> TRUE, message |-> Str("Cannot read properties of null")]
ThrownString == [isError |-> FALSE, message |-> Undefined]
ReferenceError == [isError |-> TRUE, message |-> Str("AbortController is not defined")]

\* Bodies response.json() can produce: objects (own keys), primitives, null
JsonObjects ==
  { [ja3_hash |-> Str("cd08e31494f9531f"), ja3 |-> Str("771,4866-4867"),
     ja4 |-> Str("t13d1517h2_8daaf6152771")],
    [ja3Hash |-> Str("cd08e31494f9531f")],
    [ja3_full |-> Str(""), ja3_string |-> Str("771,4866-4867"), ja4 |-> Num(0)],
    [ja3 |-> Null, ja3Full |-> Str("771,4866-4867")],
    [k \in {} |-> Undefined] }

JsonBodies == [kind : {"object"}, data : JsonObjects]
                \cup {[kind |-> "primitive", data |-> [k \in {} |-> Undefined]],
                      [kind |-> "null", data |-> [k \in {} |-> Undefined]]}

HttpStatuses == {"HTTP 404", "HTTP 500"}

TlsInit ==
  /\ configuredOptions = Spread(defaultOptions, [k \in {} |-> Undefined])
  /\ tlsPc = "idle"
  /\ endpoint = Undefined
  /\ tlsTimeout = "none"
  /\ delay = 0
  /\ aborted = FALSE
  /\ tlsPromise = "none"
  /\ tlsResult = NoResult
  /\ lastOptions = [k \in {} |-> Undefined]
  /\ configures = 0
  /\ tlsCalls = 0
  /\ fetchIssued = FALSE
  /\ deadlinePassed = FALSE

\* The synchronous start of getTLSFingerprint, up to its first await.
\* controller says whether new AbortController() succeeds on the host.
getTLSFingerprint(controller) ==
  /\ UNCHANGED exceptTls
  /\ tlsPc \in {"idle", "done"}
  /\ tlsCalls < MaxTlsCalls
  /\ tlsCalls' = tlsCalls + 1
  /\ endpoint' = configuredOptions.endpoint
  /\ aborted' = FALSE
  /\ deadlinePassed' = FALSE
  /\ UNCHANGED <<configuredOptions, lastOptions, configures>>
  /\ IF ~Truthy(configuredOptions.endpoint)
       THEN /\ tlsPromise' = "resolved"
            /\ tlsResult' = NoEndpointResult
            /\ tlsPc' = "done"
            /\ tlsTimeout' = "none"
            /\ delay' = 0
            /\ fetchIssued' = FALSE
       ELSE IF controller = "throws"
         THEN /\ tlsPromise' = "resolved"
              /\ tlsResult' = CatchResult(ReferenceError)
              /\ tlsPc' = "done"
              /\ tlsTimeout' = "none"
              /\ delay' = 0
              /\ fetchIssued' = FALSE
         ELSE /\ tlsPromise' = "pending"
              /\ tlsResult' = NoResult
              /\ tlsPc' = "fetching"
              /\ tlsTimeout' = "armed"
              /\ delay' = Deadline(configuredOptions.timeout)
              /\ fetchIssued' = TRUE

\* await fetch(...) returns a response; ok is response.ok
FetchResolves(ok, status) ==
  /\ UNCHANGED exceptTls
  /\ tlsPc = "fetching"
  /\ ~aborted
  /\ tlsTimeout' = clearTimeout(tlsTimeout)
  /\ IF ~ok
       THEN /\ tlsPromise' = "resolved"
            /\ tlsResult' = HttpErrorResult(status)
            /\ tlsPc' = "done"
       ELSE /\ tlsPc' = "reading"
            /\ UNCHANGED <<tlsPromise, tlsResult>>
  /\ UNCHANGED <<configuredOptions, endpoint, delay, aborted, lastOptions, configures,
                 tlsCalls, fetchIssued, deadlinePassed>>

\* await fetch(...) throws: the request was aborted, or the network failed
FetchRejects(thrown) ==
  /\ UNCHANGED exceptTls
  /\ tlsPc = "fetching"
  /\ aborted => thrown = AbortError
  /\ ~aborted => thrown # AbortError
  /\ tlsPromise' = "resolved"
  /\ tlsResult' = CatchResult(thrown)
  /\ tlsPc' = "done"
  /\ UNCHANGED <<configuredOptions, endpoint, tlsTimeout, delay, aborted, lastOptions,
                 configures, tlsCalls, fetchIssued, deadlinePassed>>

\* await response.json() returns the parsed body
BodyParsed(body) ==
  /\ UNCHANGED exceptTls
  /\ tlsPc = "reading"
  /\ tlsPromise' = "resolved"
  /\ tlsResult' = IF body.kind = "null" THEN CatchResult(TypeErrorOnNull)
                  ELSE SuccessResult(body.data)
  /\ tlsPc' = "done"
  /\ UNCHANGED <<configuredOptions, endpoint, tlsTimeout, delay, aborted, lastOptions,
                 configures, tlsCalls, fetchIssued, deadlinePassed>>

\* await response.json() throws: the body is not JSON, or the stream failed
BodyFails(thrown) ==
  /\ UNCHANGED exceptTls
  /\ tlsPc = "reading"
  /\ tlsPromise' = "resolved"
  /\ tlsResult' = CatchResult(thrown)
  /\ tlsPc' = "done"
  /\ UNCHANGED <<configuredOptions, endpoint, tlsTimeout, delay, aborted, lastOptions,
                 configures, tlsCalls, fetchIssued, deadlinePassed>>

\* The abort timer fires at the deadline: controller.abort()
AbortTimerFires ==
  /\ UNCHANGED exceptTls
  /\ tlsTimeout = "armed"
  /\ tlsTimeout' = "fired"
  /\ aborted' = TRUE
  /\ deadlinePassed' = TRUE
  /\ UNCHANGED <<configuredOptions, tlsPc, endpoint, delay, tlsPromise, tlsResult,
                 lastOptions, configures, tlsCalls, fetchIssued>>

\* The deadline elapses during a call whose timer is no longer armed
DeadlineElapses ==
  /\ UNCHANGED exceptTls
  /\ tlsPc \in {"fetching", "reading"}
  /\ tlsTimeout # "armed"
  /\ ~deadlinePassed
  /\ deadlinePassed' = TRUE
  /\ UNCHANGED <<configuredOptions, tlsPc, endpoint, tlsTimeout, delay, aborted,
                 tlsPromise, tlsResult, lastOptions, configures, tlsCalls, fetchIssued>>

TlsNext ==
  \/ \E options \in OptionsObjects : configureTLSFingerprint(options)
  \/ \E controller \in {"ok", "throws"} : getTLSFingerprint(controller)
  \/ \E ok \in BOOLEAN, status \in HttpStatuses : FetchResolves(ok, status)
  \/ \E thrown \in {NetworkError, AbortError, ThrownString} : FetchRejects(thrown)
  \/ \E body \in JsonBodies : BodyParsed(body)
  \/ \E thrown \in {SyntaxError, NetworkError, ThrownString} : BodyFails(thrown)
  \/ AbortTimerFires
  \/ DeadlineElapses

(***************************************************************************)
(* Properties of the TLS source                                            *)
(***************************************************************************)

\* C6: getTLSFingerprint never rejects; the record it resolves with has error
\* undefined when success is true, and ja3, ja3Full, ja4 undefined with a
\* message in error when success is false; a call made with no endpoint
\* configured resolves at once and issues no fetch.
C6_AlwaysAResultRecord ==
  /\ tlsPromise # "rejected"
  /\ tlsPromise = "resolved" =>
       /\ tlsResult.success => tlsResult.error = Undefined
       /\ ~tlsResult.success =>
            /\ tlsResult.ja3 = Undefined
            /\ tlsResult.ja3Full = Undefined
            /\ tlsResult.ja4 = Undefined
            /\ tlsResult.error.type = "string"
  /\ (tlsCalls > 0 /\ endpoint \in {Undefined, Str("")}) =>
       /\ ~fetchIssued
       /\ tlsPromise = "resolved"
       /\ ~tlsResult.success

\* A fetch was issued and failed with a thrown value that is not an Error.
C6_Witness ==
  /\ fetchIssued
  /\ tlsPromise = "resolved"
  /\ tlsResult.error = Str("Unknown error")

\* C7: when the deadline of a call elapses before the response is complete
\* (headers and body), the request is aborted; no call stays pending past its
\* deadline without the abort having been issued.
C7_DeadlineCoversWholeCall ==
  (tlsPromise = "pending" /\ deadlinePassed) => aborted

\* The abort timer of a settled getTLSFingerprint call has fired or been
\* cleared.
TlsTimerSettled ==
  tlsPromise \in {"resolved", "rejected"} => tlsTimeout # "armed"

\* The deadline timer of a settled getWebRTCIPs call has fired or been
\* cleared and its peer connection no longer delivers events.
RtcQuiescent ==
  promise \in {"resolved", "rejected"} => (timeout # "armed" /\ pc # "open")

\* C18: when the promise of getTLSFingerprint or of getWebRTCIPs has settled,
\* nothing the call started is still pending: the abort timer of the fetch
\* has fired or been cleared on every path, the WebRTC deadline timer has
\* fired or been cleared and the peer connection delivers no more events.
C18_NothingOutlivesPromise == TlsTimerSettled /\ RtcQuiescent

\* C8: the process-wide options are always the defaults overlaid with the
\* fields of the most recent configureTLSFingerprint call alone, and no
\* getTLSFingerprint step changes them.
C8_OptionsFromLastCall ==
  /\ DOMAIN configuredOptions = {"endpoint", "timeout"}
  /\ configuredOptions.endpoint =
       IF "endpoint" \in DOMAIN lastOptions THEN lastOptions.endpoint ELSE Undefined
  /\ configuredOptions.timeout =
       IF "timeout" \in DOMAIN lastOptions THEN lastOptions.timeout ELSE Num(3000)

\* A call ran against a configured endpoint, then a second configuration that
\* names no endpoint put the endpoint back to its default.
C8_Witness ==
  /\ configures = 2
  /\ tlsPc = "done"
  /\ fetchIssued
  /\ "endpoint" \notin DOMAIN lastOptions
  /\ configuredOptions.endpoint = Undefined

(***************************************************************************)
(* getScreenMediaQueries: detectDimensionRange                             *)
(***************************************************************************)
MaxDimension == 8192
Threshold == 10

\* Height of the consistent host whose width is w: every value of
\* 0..MaxDimension is the height of one host and differs from its width.
HeightOf(w) == (w + 4321) % (MaxDimension + 1)

\* Hosts: matchMedia answers from the true viewport ("consistent"), or
\* answers that do not come from any viewport.
MqHosts ==
  {[kind |-> "consistent", width |-> w, height |-> HeightOf(w)] : w \in 0..MaxDimension}
    \cup {[kind |-> "consistent", width |-> 9000, height |-> MaxDimension + 1]}
    \cup {[kind |-> k, width |-> 1280, height |-> 720] :
            k \in {"alwaysFalse", "alwaysTrue", "oddOnly"}}

\* matchMedia(`(${query}: ${m}px)`).matches on host h
matchMedia(h, query, m) ==
  CASE h.kind = "alwaysFalse" -> FALSE
    [] h.kind = "alwaysTrue" -> TRUE
    [] h.kind = "oddOnly" -> m % 2 = 1
    [] OTHER ->
         CASE query = "min-width" -> m <= h.width
           [] query = "max-width" -> m >= h.width
           [] query = "min-height" -> m <= h.height
           [] query = "max-height" -> m >= h.height

minQuery(d) == IF d = "width" THEN "min-width" ELSE "min-height"

\* The max query taken from the width whatever the dimension
maxQuery_AlwaysWidth(d) == "max-width"

maxQuery(d) == IF d = "width" THEN "max-width" ELSE "max-height"

\* Math.floor((low + high) / 2)
Mid(lo, hi) == (lo + hi) \div 2

\* State before the call, on one of hosts
MqInitOn(hosts) ==
  /\ mqHost \in hosts
  /\ mqPc = "idle"
  /\ dimension = "width"
  /\ low = 0
  /\ high = MaxDimension
  /\ minValue = 0
  /\ viewportWidth = <<0, 0>>
  /\ viewportHeight = <<0, 0>>

\* getScreenMediaQueries() is called: detectDimensionRange('width') starts
getScreenMediaQueries ==
  /\ UNCHANGED exceptMq
  /\ mqPc = "idle"
  /\ mqPc' = "lower"
  /\ dimension' = "width"
  /\ low' = 0
  /\ high' = MaxDimension
  /\ UNCHANGED <<mqHost, minValue, viewportWidth, viewportHeight>>

\* One iteration of the first loop (binary search for the lower bound)
LowerBoundStep ==
  /\ UNCHANGED exceptMq
  /\ mqPc = "lower"
  /\ high - low > Threshold
  /\ IF matchMedia(mqHost, minQuery(dimension), Mid(low, high))
       THEN low' = Mid(low, high) /\ high' = high
       ELSE high' = Mid(low, high) /\ low' = low
  /\ UNCHANGED <<mqHost, mqPc, dimension, minValue, viewportWidth, viewportHeight>>

\* The first loop ends: minValue = low; low and high are reset
LowerBoundDone ==
  /\ UNCHANGED exceptMq
  /\ mqPc = "lower"
  /\ ~(high - low > Threshold)
  /\ minValue' = low
  /\ low' = 0
  /\ high' = MaxDimension
  /\ mqPc' = "upper"
  /\ UNCHANGED <<mqHost, dimension, viewportWidth, viewportHeight>>

\* One iteration of the second loop (binary search for the upper bound)
UpperBoundStep ==
  /\ UNCHANGED exceptMq
  /\ mqPc = "upper"
  /\ high - low > Threshold
  /\ IF matchMedia(mqHost, maxQuery(dimension), Mid(low, high))
       THEN high' = Mid(low, high) /\ low' = low
       ELSE low' = Mid(low, high) /\ high' = high
  /\ UNCHANGED <<mqHost, mqPc, dimension, minValue, viewportWidth, viewportHeight>>

\* The second loop ends: return [minValue, maxValue]; after the width the
\* height is probed, after the height the record is complete
UpperBoundDone ==
  /\ UNCHANGED exceptMq
  /\ mqPc = "upper"
  /\ ~(high - low > Threshold)
  /\ IF dimension = "width"
       THEN /\ viewportWidth' = <<minValue, high>>
            /\ dimension' = "height"
            /\ mqPc' = "lower"
            /\ low' = 0
            /\ high' = MaxDimension
            /\ UNCHANGED viewportHeight
       ELSE /\ viewportHeight' = <<minValue, high>>
            /\ mqPc' = "done"
            /\ UNCHANGED <<dimension, low, high, viewportWidth>>
  /\ UNCHANGED <<mqHost, minValue>>

MqNext ==
  \/ getScreenMediaQueries
  \/ LowerBoundStep
  \/ LowerBoundDone
  \/ UpperBoundStep
  \/ UpperBoundDone

\* A host on which the other sources are exercised
QuietMqHost == [kind |-> "consistent", width |-> 1280, height |-> HeightOf(1280)]

(***************************************************************************)
(* Properties of getScreenMediaQueries                                     *)
(***************************************************************************)
Brackets(range, v) ==
  /\ range[1] <= v
  /\ v <= range[2]
  /\ range[2] - range[1] <= 10

\* C9: on a host whose matchMedia answers from a true viewport of 0..8192
\* pixels, the returned width and height ranges contain the true value and
\* are at most 10 wide.
C9_BracketsTrueDimension ==
  (/\ mqPc = "done"
   /\ mqHost.kind = "consistent"
   /\ mqHost.width \in 0..8192
   /\ mqHost.height \in 0..8192) =>
      /\ Brackets(viewportWidth, mqHost.width)
      /\ Brackets(viewportHeight, mqHost.height)

\* The probe of a 1285 pixel wide viewport has returned.
C9_Witness ==
  /\ mqPc = "done"
  /\ mqHost.kind = "consistent"
  /\ mqHost.width = 1285
  /\ viewportWidth = <<1280, 1288>>

WellFormedRange(range) ==
  /\ 0 <= range[1]
  /\ range[1] <= range[2]
  /\ range[2] <= 8192
  /\ range[2] - range[1] <= 10

\* C10: on every host, whatever its matchMedia answers, each returned
\* dimension range [lo, hi] has 0 <= lo <= hi <= 8192 and hi - lo <= 10.
C10_RangesWellFormed ==
  mqPc = "done" => WellFormedRange(viewportWidth) /\ WellFormedRange(viewportHeight)

(***************************************************************************)
(* getScreenMediaQueries: detectPixelRatio, detectColorBits and the        *)
(* keyword detectors, which run after the two dimension ranges.            *)
(* Ratios are kept in hundredths (1.25 is 125).                            *)
(***************************************************************************)
ratios == <<50, 75, 100, 125, 150, 175, 200, 225, 250, 275, 300, 350, 400>>
depths == <<1, 4, 8, 12, 16, 24, 30, 48>>

\* The keyword detectors in the order of the returned record: the field, the
\* media feature, and the values in the order the detector tries them.
KeywordDetectors ==
  << [field |-> "orientation", feature |-> "orientation",
      values |-> <<"portrait", "landscape">>],
     [field |-> "displayMode", feature |-> "display-mode",
      values |-> <<"fullscreen", "standalone", "minimal-ui", "browser">>],
     [field |-> "pointer", feature |-> "pointer", values |-> <<"none", "coarse", "fine">>],
     [field |-> "hover", feature |-> "hover", values |-> <<"none", "hover">>],
     [field |-> "anyPointer", feature |-> "any-pointer",
      values |-> <<"fine", "coarse", "none">>],
     [field |-> "anyHover", feature |-> "any-hover", values |-> <<"hover", "none">>],
     [field |-> "overflowBlock", feature |-> "overflow-block",
      values |-> <<"none", "scroll", "paged">>],
     [field |-> "overflowInline", feature |-> "overflow-inline",
      values |-> <<"none", "scroll">>],
     [field |-> "update", feature |-> "update", values |-> <<"none", "slow", "fast">>],
     [field |-> "scripting", feature |-> "scripting",
      values |-> <<"none", "initial-only", "enabled">>] >>

KeywordFields == {KeywordDetectors[i].field : i \in 1..Len(KeywordDetectors)}

\* Media features of a desktop with a mouse and of a phone held upright; a
\* feature the host does not know (scripting, update on older engines) is absent.
DesktopMedia ==
  [f \in {"orientation", "display-mode", "pointer", "hover", "any-pointer", "any-hover",
          "overflow-block", "overflow-inline", "update", "scripting"} |->
     CASE f = "orientation" -> {"landscape"}
       [] f = "display-mode" -> {"browser"}
       [] f = "pointer" -> {"fine"}
       [] f = "hover" -> {"hover"}
       [] f = "any-pointer" -> {"fine", "coarse"}
       [] f = "any-hover" -> {"hover"}
       [] f = "overflow-block" -> {"scroll"}
       [] f = "overflow-inline" -> {"scroll"}
       [] f = "update" -> {"fast"}
       [] f = "scripting" -> {"enabled"}]

PhoneMedia ==
  [f \in {"orientation", "display-mode", "pointer", "hover", "any-pointer", "any-hover",
          "overflow-block", "overflow-inline", "update", "scripting"} |->
     CASE f = "orientation" -> {"portrait"}
       [] f = "display-mode" -> {"standalone"}
       [] f = "pointer" -> {"coarse"}
       [] f = "hover" -> {"none"}
       [] f = "any-pointer" -> {"coarse"}
       [] f = "any-hover" -> {"none"}
       [] OTHER -> {}]

\* What the host renders with and what its window object reports
PrHosts ==
  [dppx : {25, 100, 200, 262, 500},
   colorDepth : {0, 8, 24},
   media : {DesktopMedia, PhoneMedia},
   devicePixelRatio : {Undefined, Num(0), Num(100), Num(300)}]

QuietPrHost ==
  [dppx |-> 100, colorDepth |-> 24, media |-> DesktopMedia, devicePixelRatio |-> Num(100)]

\* matchMedia(`(min-resolution: ${r}dppx)`).matches
matchMediaResolution(h, p, r) ==
  CASE h.kind = "alwaysFalse" -> FALSE
    [] h.kind = "alwaysTrue" -> TRUE
    [] h.kind = "oddOnly" -> r % 2 = 1
    [] OTHER -> r <= p.dppx

\* matchMedia(`(min-color: ${d})`).matches
matchMediaColor(h, p, d) ==
  CASE h.kind = "alwaysFalse" -> FALSE
    [] h.kind = "alwaysTrue" -> TRUE
    [] h.kind = "oddOnly" -> d % 2 = 1
    [] OTHER -> d <= p.colorDepth

\* matchMedia(`(${feature}: ${value})`).matches
matchMediaKeyword(h, p, feature, value) ==
  CASE h.kind = "alwaysFalse" -> FALSE
    [] h.kind = "alwaysTrue" -> TRUE
    [] h.kind = "oddOnly" -> Len(value) % 2 = 1
    [] OTHER -> value \in p.media[feature]

\* A keyword detector: the first value whose query matches, else undefined
DetectKeyword(h, p, d) ==
  LET hits == {i \in 1..Len(d.values) : matchMediaKeyword(h, p, d.feature, d.values[i])} IN
  IF hits = {} THEN Undefined
  ELSE Str(d.values[CHOOSE i \in hits : \A j \in hits : i <= j])

NoKeywords == [f \in KeywordFields |-> Undefined]

\* State before the detectors run, on one of hosts
PrInitOn(hosts) ==
  /\ prHost \in hosts
  /\ prPc = "idle"
  /\ prIndex = 0
  /\ pixelRatio = 0
  /\ colorBits = 0
  /\ keywords = NoKeywords
  /\ windowReads = {}

\* detectPixelRatio() is entered: i = ratios.length - 1
detectPixelRatio ==
  /\ UNCHANGED exceptPr
  /\ mqPc = "done" /\ prPc = "idle"
  /\ prPc' = "ratio"
  /\ prIndex' = Len(ratios)
  /\ UNCHANGED <<prHost, pixelRatio, colorBits, keywords, windowReads>>

\* One iteration of the loop of detectPixelRatio; a match returns ratios[i]
\* and detectColorBits() is entered
PixelRatioStep ==
  /\ UNCHANGED exceptPr
  /\ prPc = "ratio" /\ prIndex >= 1
  /\ IF matchMediaResolution(mqHost, prHost, ratios[prIndex])
       THEN /\ pixelRatio' = ratios[prIndex]
            /\ prPc' = "color"
            /\ prIndex' = Len(depths)
       ELSE /\ prIndex' = prIndex - 1
            /\ UNCHANGED <<pixelRatio, prPc>>
  /\ UNCHANGED <<prHost, colorBits, keywords, windowReads>>

\* window.devicePixelRatio || 1, in hundredths
PixelRatioFallback(p) == Or(p.devicePixelRatio, Num(100)).v

\* No ratio matched: return window.devicePixelRatio || 1
PixelRatioNoMatch ==
  /\ UNCHANGED exceptPr
  /\ prPc = "ratio" /\ prIndex < 1
  /\ windowReads' = windowReads \cup {"devicePixelRatio"}
  /\ pixelRatio' = PixelRatioFallback(prHost)
  /\ prPc' = "color"
  /\ prIndex' = Len(depths)
  /\ UNCHANGED <<prHost, colorBits, keywords>>

\* One iteration of the loop of detectColorBits; a match returns depths[i]
ColorBitsStep ==
  /\ UNCHANGED exceptPr
  /\ prPc = "color" /\ prIndex >= 1
  /\ IF matchMediaColor(mqHost, prHost, depths[prIndex])
       THEN /\ colorBits' = depths[prIndex]
            /\ prPc' = "keywords"
       ELSE /\ UNCHANGED <<colorBits, prPc>>
  /\ prIndex' = IF prPc' = "keywords" THEN 0 ELSE prIndex - 1
  /\ UNCHANGED <<prHost, pixelRatio, keywords, windowReads>>

\* No depth matched: return 0
ColorBitsNoMatch ==
  /\ UNCHANGED exceptPr
  /\ prPc = "color" /\ prIndex < 1
  /\ colorBits' = 0
  /\ prPc' = "keywords"
  /\ prIndex' = 0
  /\ UNCHANGED <<prHost, pixelRatio, keywords, windowReads>>

\* detectOrientation() ... detectScripting(): the record is complete
DetectKeywords ==
  /\ UNCHANGED exceptPr
  /\ prPc = "keywords"
  /\ keywords' = [f \in KeywordFields |->
                    LET d == CHOOSE k \in {KeywordDetectors[i] : i \in 1..Len(KeywordDetectors)} :
                               k.field = f
                    IN DetectKeyword(mqHost, prHost, d)]
  /\ prPc' = "done"
  /\ UNCHANGED <<prHost, prIndex, pixelRatio, colorBits, windowReads>>

PrNext ==
  \/ detectPixelRatio
  \/ PixelRatioStep
  \/ PixelRatioNoMatch
  \/ ColorBitsStep
  \/ ColorBitsNoMatch
  \/ DetectKeywords

(***************************************************************************)
(* Properties of the detectors                                             *)
(***************************************************************************)

\* C11: during a getScreenMediaQueries call, whatever matchMedia answers, no
\* property of window (window.devicePixelRatio, window.screen) is read: the
\* record is made of matchMedia answers alone.
C11_OnlyMatchMedia == windowReads = {}

(***************************************************************************)
(* Canvas bitmaps.  A bitmap is a width, a height and the flat RGBA array  *)
(* of ImageData.data, indexed from 0: the channel c of pixel (x, y) is at  *)
(* (y * w + x) * 4 + c.  Scenes are rendered at a reduced size.            *)
(***************************************************************************)
MaxWidth == 2
MaxHeight == 2

Orange == <<255, 102, 0, 255>>
Blue == <<0, 102, 153, 255>>
Clear == <<0, 0, 0, 0>>

\* The bitmap of w x h pixels whose pixels, row by row, have the given colours
Bitmap(w, h, colours) ==
  [w |-> w, h |-> h,
   data |-> [i \in 0..(w * h * 4 - 1) |-> colours[(i \div 4) + 1][(i % 4) + 1]]]

SetMin(S) == CHOOSE m \in S : \A n \in S : m <= n
SetMax(S) == CHOOSE m \in S : \A n \in S : m >= n

Clamp(v, lo, hi) == IF v < lo THEN lo ELSE IF v > hi THEN hi ELSE v

\* Indices of channel c of the pixel (x, y) and of its neighbours inside a w x h bitmap
Neighbourhood(w, h, x, y, c) ==
  {((y + dy) * w + (x + dx)) * 4 + c :
     <<dx, dy>> \in {d \in (-1..1) \X (-1..1) :
                      /\ x + d[1] >= 0 /\ x + d[1] < w
                      /\ y + d[2] >= 0 /\ y + d[2] < h}}

\* The noise the host adds to the byte at index i on a readback: none for
\* seed 0, else -1, 0 or +1 depending on the seed the host picked
NoNoise == 0
NoiseSeeds == 1..3
Delta(i, seed) == IF seed = NoNoise THEN 0 ELSE ((i + seed) % 3) - 1

\* A readback of the bitmap (getImageData, toDataURL) on the host: every byte
\* is perturbed and clamped to the range of its channel over the pixel's
\* neighbourhood
Readback(b, seed) ==
  [b EXCEPT !.data =
     [i \in DOMAIN b.data |->
        LET p == i \div 4
            around == {b.data[j] : j \in Neighbourhood(b.w, b.h, p % b.w, p \div b.w, i % 4)}
        IN Clamp(b.data[i] + Delta(i, seed), SetMin(around), SetMax(around))]]

\* Seeds the host can pick for one readback
Noise(noisy) == IF noisy THEN NoiseSeeds ELSE {NoNoise}

HexDigit == <<"0", "1", "2", "3", "4", "5", "6", "7", "8", "9",
              "a", "b", "c", "d", "e", "f">>

ByteText(v) == HexDigit[(v \div 16) + 1] \o HexDigit[(v % 16) + 1]

RECURSIVE BytesText(_, _)
BytesText(data, i) ==
  IF i \notin DOMAIN data THEN "" ELSE ByteText(data[i]) \o BytesText(data, i + 1)

DataURLPrefix == "data:image/png;base64,"

\* The data-URL of a bitmap: the prefix, then a lossless encoding of the
\* size and of every byte, so that two bitmaps have the same URL exactly
\* when they are equal
EncodeDataURL(b) ==
  DataURLPrefix \o ByteText(b.w) \o ByteText(b.h) \o BytesText(b.data, 0)

\* canvas.toDataURL() on the host: a readback, then the encoding
toDataURL(b, seed) == EncodeDataURL(Readback(b, seed))

Unsupported == "unsupported"
Skipped == "skipped"
Unstable == "unstable"
ImageStatus == {Unsupported, Skipped, Unstable}

(***************************************************************************)
(* getDenoisedCanvasData: the 3x3 scaling and the centre extraction        *)
(***************************************************************************)
DENOISE_SCALE == 3

\* scaledContext.drawImage(canvas, 0, 0, 3W, 3H) with imageSmoothingEnabled
\* false: every source pixel becomes a block of k x k identical pixels
drawImageScaled(b, k) ==
  [w |-> b.w * k, h |-> b.h * k,
   data |-> [i \in 0..(b.w * k * b.h * k * 4 - 1) |->
               LET p == i \div 4
                   sx == (p % (b.w * k)) \div k
                   sy == (p \div (b.w * k)) \div k
               IN b.data[(sy * b.w + sx) * 4 + (i % 4)]]]

\* Index read in the scaled array for the pixel (x, y), without the half-block offset
scaledIdx_Corner(x, y, scaledWidth) ==
  ((y * DENOISE_SCALE) * scaledWidth + x * DENOISE_SCALE) * 4

\* scaledIdx of the loop body: the centre of the block of (x, y)
scaledIdx(x, y, scaledWidth) ==
  LET scaledX == x * DENOISE_SCALE + (DENOISE_SCALE \div 2)
      scaledY == y * DENOISE_SCALE + (DENOISE_SCALE \div 2)
  IN (scaledY * scaledWidth + scaledX) * 4

\* originalIdx of the loop body
originalIdx(x, y, originalWidth) == (y * originalWidth + x) * 4

\* array[i] of a typed array stored into a Uint8ClampedArray: a read outside
\* the array gives undefined, which is stored as 0
ReadAt(data, i) == IF i \in DOMAIN data THEN data[i] ELSE 0

\* A scratch canvas that is also appended to the document
createElement_Attached(elements, width, height) ==
  Append(elements, [attached |-> TRUE, width |-> width, height |-> height])

\* document.createElement('canvas') followed by the sizing of the element:
\* the element is in no document
createElement(elements, width, height) ==
  Append(elements, [attached |-> FALSE, width |-> width, height |-> height])

\* A readback call returns, or it throws (the host blocks canvas extraction)
ReadbackOutcomes == {"ok", "throws"}

\* getContext('2d') of a scratch canvas returns a context, or null
ContextOutcomes == {"ok", "null"}

Zeros(n) == [i \in 0..(n - 1) |-> 0]

NoBitmap == [w |-> 0, h |-> 0, data |-> Zeros(0)]

\* State with no getDenoisedCanvasData call running
DnInit ==
  /\ dnPc = "idle"
  /\ dnSource = NoBitmap
  /\ dnX = 0
  /\ dnY = 0
  /\ scaledImageData = NoBitmap
  /\ denoisedData = Zeros(0)
  /\ dnReadIdx = {}
  /\ dnResult = ""
  /\ canvases = <<>>
  /\ fellBack = FALSE

\* return canvas.toDataURL(): the fallback on the source canvas
FallbackToSource(scene) ==
  /\ fellBack' = TRUE
  /\ \E outcome \in ReadbackOutcomes, seed \in Noise(cvHost.noisy) :
       IF outcome = "throws"
         THEN dnPc' = "threw" /\ dnResult' = ""
         ELSE dnPc' = "done" /\ dnResult' = toDataURL(scene, seed)

\* getDenoisedCanvasData(canvas, context, renderFn), steps 1 to 5 and the
\* allocation of denoisedData; scene is what renderFn leaves on the canvas
getDenoisedCanvasData(scene) ==
  /\ UNCHANGED exceptCv
  /\ UNCHANGED cvVars
  /\ dnPc = "idle"
  /\ dnSource' = scene
  /\ canvases' = createElement(canvases, scene.w * DENOISE_SCALE, scene.h * DENOISE_SCALE)
  /\ dnX' = 0
  /\ dnY' = 0
  /\ dnReadIdx' = {}
  /\ \E scaledContext \in ContextOutcomes :
       IF scaledContext = "null"
         THEN /\ FallbackToSource(scene)
              /\ scaledImageData' = NoBitmap
              /\ denoisedData' = Zeros(0)
         ELSE \E outcome \in ReadbackOutcomes, seed \in Noise(cvHost.noisy) :
                /\ UNCHANGED fellBack
                /\ IF outcome = "throws"
                     THEN /\ dnPc' = "threw"
                          /\ dnResult' = ""
                          /\ scaledImageData' = NoBitmap
                          /\ denoisedData' = Zeros(0)
                     ELSE /\ dnPc' = "loop"
                          /\ dnResult' = ""
                          /\ scaledImageData' =
                               Readback(drawImageScaled(scene, DENOISE_SCALE), seed)
                          /\ denoisedData' = Zeros(scene.w * scene.h * 4)

\* One iteration of the inner loop: the four channels of pixel (x, y)
ExtractPixel ==
  /\ UNCHANGED exceptCv
  /\ UNCHANGED cvVars
  /\ dnPc = "loop"
  /\ dnY < dnSource.h /\ dnX < dnSource.w
  /\ LET from == scaledIdx(dnX, dnY, scaledImageData.w)
         to == originalIdx(dnX, dnY, dnSource.w)
     IN /\ denoisedData' =
             [i \in DOMAIN denoisedData |->
                IF i \in to..(to + 3) THEN ReadAt(scaledImageData.data, from + (i - to))
                ELSE denoisedData[i]]
        /\ dnReadIdx' = dnReadIdx \cup (from..(from + 3))
  /\ IF dnX + 1 < dnSource.w
       THEN dnX' = dnX + 1 /\ dnY' = dnY
       ELSE dnX' = 0 /\ dnY' = dnY + 1
  /\ UNCHANGED <<dnPc, dnSource, scaledImageData, dnResult, canvases, fellBack>>

\* Step 7: the output canvas, putImageData and return outputCanvas.toDataURL()
ExtractDone ==
  /\ UNCHANGED exceptCv
  /\ UNCHANGED cvVars
  /\ dnPc = "loop"
  /\ ~(dnY < dnSource.h)
  /\ canvases' = createElement(canvases, dnSource.w, dnSource.h)
  /\ \E outputContext \in ContextOutcomes :
       IF outputContext = "null"
         THEN FallbackToSource(dnSource)
         ELSE \E outcome \in ReadbackOutcomes, seed \in Noise(cvHost.noisy) :
                /\ UNCHANGED fellBack
                /\ IF outcome = "throws"
                     THEN dnPc' = "threw" /\ dnResult' = ""
                     ELSE /\ dnPc' = "done"
                          /\ dnResult' =
                               toDataURL([w |-> dnSource.w, h |-> dnSource.h,
                                          data |-> denoisedData], seed)
  /\ UNCHANGED <<dnSource, dnX, dnY, scaledImageData, denoisedData, dnReadIdx>>

(***************************************************************************)
(* getCanvasFingerprint / getUnstableCanvasFingerprint                     *)
(***************************************************************************)
\* What the two scenes look like on a host once rendered
SceneSets ==
  { [text |-> Bitmap(2, 1, <<Orange, Clear>>), geometry |-> Bitmap(1, 2, <<Blue, Clear>>)],
    [text |-> Bitmap(1, 1, <<Blue>>), geometry |-> Bitmap(1, 1, <<Orange>>)] }

\* isWebKit(), isWebKit616OrNewer(), isSafariWebKit() of the hosts: Safari 17,
\* an older Safari, another WebKit 616 browser, a browser of another engine
Browsers ==
  { [isWebKit |-> TRUE, isWebKit616OrNewer |-> TRUE, isSafariWebKit |-> TRUE],
    [isWebKit |-> TRUE, isWebKit616OrNewer |-> FALSE, isSafariWebKit |-> TRUE],
    [isWebKit |-> TRUE, isWebKit616OrNewer |-> TRUE, isSafariWebKit |-> FALSE],
    [isWebKit |-> FALSE, isWebKit616OrNewer |-> FALSE, isSafariWebKit |-> FALSE] }

CanvasHosts ==
  [browser : Browsers,
   context2d : BOOLEAN,        \* canvas.getContext('2d') of the 1 x 1 canvas is not null
   hasToDataURL : BOOLEAN,     \* canvas.toDataURL exists
   isPointInPath : BOOLEAN,    \* context.isPointInPath(5, 5, 'evenodd')
   noisy : BOOLEAN,            \* readbacks are perturbed
   scenes : SceneSets]

QuietCanvasHost ==
  [browser |-> [isWebKit |-> FALSE, isWebKit616OrNewer |-> FALSE, isSafariWebKit |-> FALSE],
   context2d |-> TRUE, hasToDataURL |-> TRUE, isPointInPath |-> FALSE, noisy |-> FALSE,
   scenes |-> [text |-> Bitmap(1, 1, <<Blue>>), geometry |-> Bitmap(1, 1, <<Orange>>)]]

\* isWebKit() && isWebKit616OrNewer() && isSafariWebKit()
doesBrowserPerformAntifingerprinting(h) ==
  h.browser.isWebKit /\ h.browser.isWebKit616OrNewer /\ h.browser.isSafariWebKit

\* !!(context && canvas.toDataURL)
isSupported(h) == h.context2d /\ h.hasToDataURL

\* !context.isPointInPath(5, 5, 'evenodd')
doesSupportWinding(h) == ~h.isPointInPath

NoRecord == [winding |-> FALSE, geometry |-> "", text |-> ""]

CvInitOn(hosts) ==
  /\ cvHost \in hosts
  /\ cvPc = "idle"
  /\ winding = FALSE
  /\ geometry = ""
  /\ text = ""
  /\ cvOutcome = "none"
  /\ cvReturned = NoRecord
  /\ cvFirst = NoRecord
  /\ cvEntry = "none"

\* return { winding, geometry, text } from a call made through entry
Return(entry, rec) ==
  /\ cvPc' = "done"
  /\ cvOutcome' = "returned"
  /\ cvReturned' = rec
  /\ cvFirst' = IF cvFirst = NoRecord /\ entry = "getCanvasFingerprint" THEN rec
                ELSE cvFirst
  /\ winding' = rec.winding
  /\ geometry' = rec.geometry
  /\ text' = rec.text

\* An exception leaves the call
Throw ==
  /\ cvPc' = "done"
  /\ cvOutcome' = "threw"
  /\ UNCHANGED <<cvReturned, cvFirst, winding, geometry, text>>

\* A new call starts through the entry point named entry: nothing of the
\* previous call is kept
Enter(entry) ==
  /\ cvEntry' = entry
  /\ cvPc \in {"idle", "done"}
  /\ dnPc \in {"idle", "done", "threw"}
  /\ canvases' = createElement(<<>>, 1, 1)
  /\ dnPc' = "idle"
  /\ UNCHANGED <<cvHost, dnSource, dnX, dnY, scaledImageData, denoisedData, dnReadIdx,
                 dnResult, fellBack>>

\* getNoiseResistantCanvasFingerprint(), up to the first getDenoisedCanvasData
getNoiseResistantCanvasFingerprint ==
  IF ~isSupported(cvHost)
    THEN Return("getCanvasFingerprint",
                [winding |-> FALSE, geometry |-> Unsupported, text |-> Unsupported])
    ELSE /\ winding' = doesSupportWinding(cvHost)
         /\ cvPc' = "geometry"
         /\ cvOutcome' = "none"
         /\ geometry' = ""
         /\ text' = ""
         /\ cvReturned' = NoRecord
         /\ UNCHANGED cvFirst

\* getUnstableCanvasFingerprint(skipImages), up to renderImages
UnstableCanvasFingerprint(entry, skipImages) ==
  IF ~isSupported(cvHost)
    THEN Return(entry,
                [winding |-> FALSE, geometry |-> Unsupported, text |-> Unsupported])
    ELSE IF skipImages
      THEN Return(entry,
                  [winding |-> doesSupportWinding(cvHost),
                   geometry |-> Skipped, text |-> Skipped])
      ELSE /\ winding' = doesSupportWinding(cvHost)
           /\ cvPc' = "images"
           /\ cvOutcome' = "none"
           /\ geometry' = ""
           /\ text' = ""
           /\ cvReturned' = NoRecord
           /\ UNCHANGED cvFirst

\* getCanvasFingerprint()
getCanvasFingerprint ==
  /\ UNCHANGED exceptCv
  /\ Enter("getCanvasFingerprint")
  /\ IF doesBrowserPerformAntifingerprinting(cvHost)
       THEN getNoiseResistantCanvasFingerprint
       ELSE UnstableCanvasFingerprint("getCanvasFingerprint", FALSE)

\* getUnstableCanvasFingerprint(skipImages) called by a package user
getUnstableCanvasFingerprint(skipImages) ==
  /\ UNCHANGED exceptCv
  /\ Enter("getUnstableCanvasFingerprint")
  /\ UnstableCanvasFingerprint("getUnstableCanvasFingerprint", skipImages)

\* The pair renderImages returns when no readback throws
RenderedImages_GeometryOnly(textImage1, textImage2, geometryImage) ==
  IF textImage1 # textImage2 THEN <<geometryImage, Unstable>>
  ELSE <<geometryImage, textImage1>>

RenderedImages(textImage1, textImage2, geometryImage) ==
  IF textImage1 # textImage2 THEN <<Unstable, Unstable>>
  ELSE <<geometryImage, textImage1>>

\* renderImages(canvas, context) and the return of getUnstableCanvasFingerprint
renderImages ==
  /\ UNCHANGED exceptCv
  /\ cvPc = "images"
  /\ \E o1, o2, o3 \in ReadbackOutcomes, s1, s2, s3 \in Noise(cvHost.noisy) :
       LET textImage1 == toDataURL(cvHost.scenes.text, s1)
           textImage2 == toDataURL(cvHost.scenes.text, s2)
           geometryImage == toDataURL(cvHost.scenes.geometry, s3)
           images == RenderedImages(textImage1, textImage2, geometryImage)
       IN IF o1 = "throws" \/ o2 = "throws" THEN Throw
          ELSE IF textImage1 = textImage2 /\ o3 = "throws" THEN Throw
          ELSE Return(cvEntry, [winding |-> winding, geometry |-> images[1],
                                text |-> images[2]])
  /\ UNCHANGED <<cvHost, cvEntry>>
  /\ UNCHANGED dnVars

\* getDenoisedCanvasData(canvas, context, renderGeometryImage), then
\* getDenoisedCanvasData(canvas, context, renderTextImage), is entered
RenderAndDenoise ==
  /\ cvPc \in {"geometry", "text"} /\ dnPc = "idle"
  /\ getDenoisedCanvasData(IF cvPc = "geometry" THEN cvHost.scenes.geometry
                           ELSE cvHost.scenes.text)

\* getDenoisedCanvasData returns into getNoiseResistantCanvasFingerprint
DenoisedReturned ==
  /\ UNCHANGED exceptCv
  /\ cvPc \in {"geometry", "text"}
  /\ dnPc = "done"
  /\ dnPc' = "idle"
  /\ IF cvPc = "geometry"
       THEN /\ geometry' = dnResult
            /\ cvPc' = "text"
            /\ UNCHANGED <<winding, text, cvOutcome, cvReturned, cvFirst>>
       ELSE Return(cvEntry, [winding |-> winding, geometry |-> geometry,
                             text |-> dnResult])
  /\ UNCHANGED <<cvHost, cvEntry, dnSource, dnX, dnY, scaledImageData, denoisedData,
                 dnReadIdx, dnResult, canvases, fellBack>>

\* A readback inside getDenoisedCanvasData threw: nothing catches it
DenoisedThrew ==
  /\ UNCHANGED exceptCv
  /\ cvPc \in {"geometry", "text"}
  /\ dnPc = "threw"
  /\ Throw
  /\ UNCHANGED <<cvHost, cvEntry>>
  /\ UNCHANGED dnVars

CvNext ==
  \/ getCanvasFingerprint
  \/ \E skipImages \in BOOLEAN : getUnstableCanvasFingerprint(skipImages)
  \/ renderImages
  \/ RenderAndDenoise
  \/ ExtractPixel
  \/ ExtractDone
  \/ DenoisedReturned
  \/ DenoisedThrew

(***************************************************************************)
(* Properties of the canvas source                                         *)
(***************************************************************************)

\* C12: getCanvasFingerprint never throws: a call in which a canvas readback
\* (toDataURL, getImageData) throws still returns a record, whose geometry
\* and text are the Unsupported sentinel.
C12_NeverThrows ==
  /\ cvOutcome # "threw"
  /\ (dnPc = "threw" /\ cvPc = "done") =>
        cvReturned.geometry = Unsupported /\ cvReturned.text = Unsupported

OnDenoisePath ==
  /\ doesBrowserPerformAntifingerprinting(cvHost)
  /\ cvHost.noisy
  /\ cvEntry = "getCanvasFingerprint"

\* C13: on a host on the denoise path whose readbacks are perturbed by noise
\* clamped by the 8-neighbourhood, two getCanvasFingerprint calls that return
\* a record return equal records, whatever noise the host picks; stated for
\* the calls that obtained every scratch context (no fallback to the noisy
\* source canvas), where the scaling is meant to remove the noise.
C13_StableUnderNoise ==
  (/\ OnDenoisePath
   /\ ~fellBack
   /\ cvFirst # NoRecord
   /\ cvPc = "done"
   /\ cvOutcome = "returned") => cvReturned = cvFirst

IsDataURL(s) == StartsWith(s, "data:")

\* C14: every record returned by getCanvasFingerprint or
\* getUnstableCanvasFingerprint has geometry and text either the same
\* sentinel or both data-URLs, and winding is false when they are Unsupported.
C14_ImagesAgree ==
  cvOutcome = "returned" =>
    /\ \/ cvReturned.geometry \in ImageStatus /\ cvReturned.text = cvReturned.geometry
       \/ IsDataURL(cvReturned.geometry) /\ IsDataURL(cvReturned.text)
    /\ cvReturned.geometry = Unsupported => ~cvReturned.winding

\* The double encoding of the text differed on a noisy host and the call
\* returned the Unstable sentinel in both fields.
C14_Witness ==
  /\ cvOutcome = "returned"
  /\ cvHost.noisy
  /\ cvReturned.geometry = Unstable
  /\ cvReturned.text = Unstable

Processed(x, y) == y < dnY \/ (y = dnY /\ x < dnX)

\* C16: in getDenoisedCanvasData, for every source size W x H and every
\* pixel (x, y) the loop has handled, the four values written at
\* (y*W + x)*4 are those read at pixel (3x+1, 3y+1) of the 3W x 3H readback,
\* every index read lies inside that buffer, and once the loops have ended
\* the extracted buffer equals the source canvas although the readback was
\* perturbed by noise clamped by the neighbours.
C16_CentreExtraction ==
  LET W == dnSource.w
      H == dnSource.h
  IN /\ dnReadIdx \subseteq 0..(3 * W * 3 * H * 4 - 1)
     /\ dnPc = "loop" =>
           /\ dnReadIdx \subseteq DOMAIN scaledImageData.data
           /\ \A x \in 0..(W - 1), y \in 0..(H - 1), c \in 0..3 :
                 Processed(x, y) =>
                   denoisedData[(y * W + x) * 4 + c] =
                     scaledImageData.data[((3 * y + 1) * (3 * W) + (3 * x + 1)) * 4 + c]
           /\ dnY = H => denoisedData = dnSource.data

\* The loops have ended on a 2 x 2 source of two colours whose scaled
\* readback was changed by the noise.
C16_Witness ==
  /\ dnPc = "loop"
  /\ dnY = dnSource.h
  /\ dnSource.w = 2
  /\ dnSource.h = 2
  /\ dnSource.data[0] # dnSource.data[4]
  /\ scaledImageData # drawImageScaled(dnSource, 3)
  /\ denoisedData = dnSource.data

NoneAttached == \A i \in 1..Len(canvases) : ~canvases[i].attached

\* C19 as stated: one getCanvasFingerprint call creates at most three canvas
\* elements on every path, the denoise path included, and attaches none of
\* them to the document.
C19_AtMostThreeCanvases ==
  cvEntry = "getCanvasFingerprint" => Len(canvases) <= 3 /\ NoneAttached

\* C19 as amended: one getCanvasFingerprint call creates at most five canvas
\* elements: one on the paths that do not denoise, and on the denoise path
\* one plus at most two for each of the two getDenoisedCanvasData calls;
\* none is attached to the document.
C19_AtMostFiveCanvases ==
  cvEntry = "getCanvasFingerprint" =>
    /\ Len(canvases) <= 5
    /\ ~doesBrowserPerformAntifingerprinting(cvHost) => Len(canvases) = 1
    /\ NoneAttached

\* A call on the denoise path has returned after creating five canvases.
C19_Witness ==
  /\ cvEntry = "getCanvasFingerprint"
  /\ cvOutcome = "returned"
  /\ cvPc = "done"
  /\ Len(canvases) = 5
  /\ ~fellBack

(***************************************************************************)
(* The audio source: getAudioFingerprint and the producer it returns.      *)
(* The producer keeps an optional computed value and a once-guard; the     *)
(* pipeline renders the offline audio graph and reduces it to a number.    *)
(***************************************************************************)
MaxInvocations == 3

\* Hosts: a mobile WebKit older than 12 suspends the audio context; a noisy
\* host (Safari 17+, Samsung Internet 26+) perturbs every rendering
AudioHosts == [suspends : BOOLEAN, noisy : BOOLEAN]

QuietAudioHost == [suspends |-> FALSE, noisy |-> FALSE]

\* Numbers one execution of the pipeline can yield on the host
PipelineValues(h) == IF h.noisy THEN {124, 125} ELSE {124}

NoValue == [type |-> "undefined"]

KnownForSuspending == [kind |-> "KnownForSuspending"]

\* A producer as getAudioFingerprint returns it: no value stored, the
\* once-guard free, no invocation made
NewProducer ==
  [kind |-> "producer", cached |-> NoValue, running |-> 0, runs |-> 0,
   calls |-> <<>>]

RECURSIVE Invocations(_)
\* Invocations made so far on all the producers of the sequence
Invocations(ps) ==
  IF ps = <<>> THEN 0
  ELSE (IF Head(ps).kind = "producer" THEN Len(Head(ps).calls) ELSE 0)
         + Invocations(Tail(ps))

AuInitOn(hosts) ==
  /\ auHost \in hosts
  /\ auReturned = <<>>

\* getAudioFingerprint(): the sentinel on a suspending host, else a producer
getAudioFingerprint ==
  /\ UNCHANGED exceptAu
  /\ Len(auReturned) < MaxInvocations
  /\ auReturned' = Append(auReturned,
                          IF auHost.suspends THEN KnownForSuspending
                          ELSE NewProducer)
  /\ UNCHANGED auHost

\* The producer enters the pipeline whenever no value is stored yet
EntersPipeline_NoGuard(cached, running) == cached = NoValue

\* The producer enters the pipeline when no value is stored and the
\* once-guard is free
EntersPipeline(cached, running) == cached = NoValue /\ running = 0

\* The producer p after one more invocation: a stored value is returned,
\* else the invocation waits for the pipeline, which it starts when the
\* guard allows it
Invoked(p) ==
  IF p.cached # NoValue
    THEN [p EXCEPT !.calls = Append(@, p.cached)]
    ELSE IF EntersPipeline(p.cached, p.running)
      THEN [p EXCEPT !.calls = Append(@, NoValue),
                     !.running = @ + 1, !.runs = @ + 1]
      ELSE [p EXCEPT !.calls = Append(@, NoValue)]

\* The k-th producer is invoked
Invoke(k) ==
  /\ UNCHANGED exceptAu
  /\ k \in 1..Len(auReturned)
  /\ auReturned[k].kind = "producer"
  /\ Invocations(auReturned) < MaxInvocations
  /\ auReturned' = [auReturned EXCEPT ![k] = Invoked(@)]
  /\ UNCHANGED auHost

\* One execution of the pipeline of the k-th producer ends with the number
\* v; the first value computed is the one the producer stores
PipelineCompletes(k, v) ==
  /\ UNCHANGED exceptAu
  /\ k \in 1..Len(auReturned)
  /\ auReturned[k].kind = "producer"
  /\ auReturned[k].running > 0
  /\ auReturned' =
       [auReturned EXCEPT ![k] =
          [@ EXCEPT !.running = @ - 1,
                    !.cached = IF @ = NoValue THEN Num(v) ELSE @]]
  /\ UNCHANGED auHost

\* The promise of the waiting invocation i of the k-th producer resolves
\* with the stored value
InvocationResolves(k, i) ==
  /\ UNCHANGED exceptAu
  /\ k \in 1..Len(auReturned)
  /\ auReturned[k].kind = "producer"
  /\ i \in 1..Len(auReturned[k].calls)
  /\ auReturned[k].calls[i] = NoValue
  /\ auReturned[k].cached # NoValue
  /\ auReturned' = [auReturned EXCEPT ![k].calls[i] = auReturned[k].cached]
  /\ UNCHANGED auHost

AuNext ==
  \/ getAudioFingerprint
  \/ \E k \in 1..MaxInvocations : Invoke(k)
  \/ \E k \in 1..MaxInvocations : \E v \in PipelineValues(auHost) :
       PipelineCompletes(k, v)
  \/ \E k, i \in 1..MaxInvocations : InvocationResolves(k, i)

(***************************************************************************)
(* Properties of the audio producer                                        *)
(***************************************************************************)

\* The producers getAudioFingerprint has returned
Producers == {k \in 1..Len(auReturned) : auReturned[k].kind = "producer"}

\* C15: all the invocations of one producer, sequential or started before
\* the first has resolved, yield the same number, and the pipeline is
\* executed exactly once per producer: an invocation made while the pipeline
\* runs or after it has ended does not enter it again.
C15_ProducerComputesOnce ==
  \A k \in Producers :
    LET p == auReturned[k] IN
      /\ p.runs <= 1
      /\ Len(p.calls) > 0 => p.runs = 1
      /\ \A i, j \in 1..Len(p.calls) :
           (p.calls[i] # NoValue /\ p.calls[j] # NoValue)
             => p.calls[i] = p.calls[j]

\* Three invocations of one producer were started before the pipeline ended
\* on a noisy host and all of them have resolved with the same number.
C15_Witness ==
  /\ auHost.noisy
  /\ \E k \in Producers :
       /\ Len(auReturned[k].calls) = 3
       /\ auReturned[k].runs = 1
       /\ \A i \in 1..3 : auReturned[k].calls[i] = Num(125)

\* getWebRTCIPs alone
Init ==
  /\ RtcInitOn(SUBSET CtorNames) /\ TlsInit /\ MqInitOn({QuietMqHost})
  /\ PrInitOn({QuietPrHost})
  /\ CvInitOn({QuietCanvasHost}) /\ DnInit
  /\ AuInitOn({QuietAudioHost})

Next == RtcNext

Spec == Init /\ [][Next]_vars

\* The TLS source alone
InitTLS ==
  /\ RtcInitOn({{}}) /\ TlsInit /\ MqInitOn({QuietMqHost})
  /\ PrInitOn({QuietPrHost})
  /\ CvInitOn({QuietCanvasHost}) /\ DnInit
  /\ AuInitOn({QuietAudioHost})

NextTLS == TlsNext

SpecTLS == InitTLS /\ [][NextTLS]_vars

\* The media-query source alone
InitMQ ==
  /\ RtcInitOn({{}}) /\ TlsInit /\ MqInitOn(MqHosts)
  /\ PrInitOn({QuietPrHost})
  /\ CvInitOn({QuietCanvasHost}) /\ DnInit
  /\ AuInitOn({QuietAudioHost})

NextMQ == MqNext

SpecMQ == InitMQ /\ [][NextMQ]_vars

\* The media-query source with the detectors that follow the ranges
DetectorMqHosts ==
  {QuietMqHost} \cup {[kind |-> k, width |-> 1280, height |-> 720] :
                        k \in {"alwaysFalse", "alwaysTrue"}}

InitPR ==
  /\ RtcInitOn({{}}) /\ TlsInit /\ MqInitOn(DetectorMqHosts)
  /\ PrInitOn(PrHosts)
  /\ CvInitOn({QuietCanvasHost}) /\ DnInit
  /\ AuInitOn({QuietAudioHost})

NextPR == MqNext \/ PrNext

SpecPR == InitPR /\ [][NextPR]_vars

\* The canvas source
InitCanvas ==
  /\ RtcInitOn({{}}) /\ TlsInit /\ MqInitOn({QuietMqHost})
  /\ PrInitOn({QuietPrHost})
  /\ CvInitOn(CanvasHosts) /\ DnInit
  /\ AuInitOn({QuietAudioHost})

NextCanvas == CvNext

SpecCanvas == InitCanvas /\ [][NextCanvas]_vars

\* getDenoisedCanvasData alone, on sources of every size up to MaxWidth x MaxHeight
DenoiseScenes ==
  UNION {{Bitmap(w, h, colours) : colours \in [1..(w * h) -> {Orange, Clear}]} :
           <<w, h>> \in (1..MaxWidth) \X (1..MaxHeight)}

DenoiseHosts == {[QuietCanvasHost EXCEPT !.noisy = n] : n \in BOOLEAN}

DenoiseAnyScene ==
  /\ cvPc = "idle" /\ dnPc = "idle"
  /\ \E scene \in DenoiseScenes : getDenoisedCanvasData(scene)

InitDenoise ==
  /\ RtcInitOn({{}}) /\ TlsInit /\ MqInitOn({QuietMqHost})
  /\ PrInitOn({QuietPrHost})
  /\ CvInitOn(DenoiseHosts) /\ DnInit
  /\ AuInitOn({QuietAudioHost})

NextDenoise == DenoiseAnyScene \/ ExtractPixel \/ ExtractDone

SpecDenoise == InitDenoise /\ [][NextDenoise]_vars

\* The audio source
InitAudio ==
  /\ RtcInitOn({{}}) /\ TlsInit /\ MqInitOn({QuietMqHost})
  /\ PrInitOn({QuietPrHost})
  /\ CvInitOn({QuietCanvasHost}) /\ DnInit
  /\ AuInitOn(AudioHosts)

NextAudio == AuNext

SpecAudio == InitAudio /\ [][NextAudio]_vars

====
